---- MODULE Spec2Model ----
(***************************************************************************)
(* The tech-funding dashboard script (tech-funding-analysis/hello.py) as a *)
(* state machine.  The script is one linear pass: load, clean, then one    *)
(* block per view.  Every block is one action; pc is the position in the   *)
(* script.  A data frame is a column list plus a sequence of rows, every   *)
(* row carrying its pandas index label; a cell is a tagged value so that   *)
(* the dtype conversions of the cleaning step are real conversions.        *)
(* Text is a sequence of one-character strings, so that parsing, splitting *)
(* and lexicographic ordering are computed and not assumed.                *)
(***************************************************************************)
EXTENDS Integers, Sequences, FiniteSets, TLC

VARIABLES pc, error, df_raw, df_cleaned, sliders, selected_region, metrics,
          region_funding, vertical_funding, df_plot_data, box_input,
          stage_summary, display_df, region_table, top_companies, emitted

vars == << pc, error, df_raw, df_cleaned, sliders, selected_region, metrics,
           region_funding, vertical_funding, df_plot_data, box_input,
           stage_summary, display_df, region_table, top_companies, emitted >>

views == << metrics, region_funding, vertical_funding, df_plot_data, box_input,
            stage_summary, display_df, region_table, top_companies >>

----------------------------------------------------------------------------
(* Column names of the schema (hello.py line 21, and lines 34, 110).       *)

AMOUNT == "Funding Amount (USD)"
FDATE == "Funding Date"
REGION == "Region"
VERTICAL == "Vertical"
STAGE == "Funding Stage"
COMPANY == "Company"
STAGE_CAT == "Funding Stage Cat"

columns_to_drop == << "index", "Website" >>

SchemaColumns ==
  << "index", COMPANY, "Website", REGION, VERTICAL, AMOUNT, STAGE, FDATE >>

----------------------------------------------------------------------------
(* Cells.                                                                  *)

NaN == [t |-> "nan"]
Str(s) == [t |-> "str", s |-> s]
Num(n) == [t |-> "num", n |-> n]
Date(ym) == [t |-> "date", ym |-> ym]
Cat(code) == [t |-> "cat", code |-> code]

IsNull(c) == c.t = "nan"

----------------------------------------------------------------------------
(* Text: character order, lexicographic comparison, split and strip.       *)

CharOrder ==
  << " ","$",",","-","0","1","2","3","4","5","6","7","8","9",
     "A","B","C","D","E","F","G","H","I","J","K","L","M","N","O","P","Q","R",
     "S","T","U","V","W","X","Y","Z",
     "a","b","c","d","e","f","g","h","i","j","k","l","m","n","o","p","q","r",
     "s","t","u","v","w","x","y","z" >>

Digits == << "0","1","2","3","4","5","6","7","8","9" >>

IndexOf(seq, x) ==
  IF \E i \in 1..Len(seq) : seq[i] = x
  THEN CHOOSE i \in 1..Len(seq) : seq[i] = x /\ \A j \in 1..(i - 1) : seq[j] # x
  ELSE 0

CharCode(c) == IndexOf(CharOrder, c)

IsDigit(c) == IndexOf(Digits, c) # 0

DigitVal(c) == IndexOf(Digits, c) - 1

(* Python's str comparison: the first differing character decides, a       *)
(* proper prefix is smaller.                                               *)
StrLess(a, b) ==
  \/ /\ Len(a) < Len(b)
     /\ \A i \in 1..Len(a) : a[i] = b[i]
  \/ \E i \in 1..Len(a) :
       /\ i <= Len(b)
       /\ \A j \in 1..(i - 1) : a[j] = b[j]
       /\ CharCode(a[i]) < CharCode(b[i])

(* s.split(',')[0]                                                         *)
FirstToken(s) ==
  LET cut == IndexOf(s, ",")
  IN IF cut = 0 THEN s ELSE SubSeq(s, 1, cut - 1)

(* s.strip() over the blanks the inputs can hold.                          *)
Strip(s) ==
  LET keep == { i \in 1..Len(s) : s[i] # " " }
  IN IF keep = {} THEN << >>
     ELSE SubSeq(s, CHOOSE i \in keep : \A j \in keep : i <= j,
                    CHOOSE i \in keep : \A j \in keep : i >= j)

----------------------------------------------------------------------------
(* Data frames.                                                            *)

DataFrame(cols, rows) == [isNone |-> FALSE, columns |-> cols, rows |-> rows]

NoneFrame == [isNone |-> TRUE, columns |-> << >>, rows |-> << >>]

HasColumn(df, col) == \E i \in 1..Len(df.columns) : df.columns[i] = col

ColumnSet(df) == { df.columns[i] : i \in 1..Len(df.columns) }

SelectSeq2(seq, keepIdx) ==
  LET F[i \in 0..Len(seq)] ==
        IF i = 0 THEN << >>
        ELSE IF i \in keepIdx THEN Append(F[i - 1], seq[i]) ELSE F[i - 1]
  IN F[Len(seq)]

(* df[cols] / df.drop(columns=...): keep the named columns, in the given   *)
(* order.                                                                  *)
Project(df, cols) ==
  LET cs == { cols[i] : i \in 1..Len(cols) }
  IN [df EXCEPT !.columns = cols,
                !.rows = [i \in 1..Len(df.rows) |->
                            [df.rows[i] EXCEPT !.c = [k \in cs |-> df.rows[i].c[k]]]]]

DropColumns(df, drop) ==
  LET gone == { drop[i] : i \in 1..Len(drop) }
  IN Project(df, SelectSeq2(df.columns,
                            { i \in 1..Len(df.columns) : df.columns[i] \notin gone }))

(* df[col] = values: overwrite the column, or append it as the last one.   *)
AssignColumn(df, col, f(_)) ==
  LET cs == ColumnSet(df) \cup {col}
  IN [df EXCEPT !.columns = IF HasColumn(df, col) THEN df.columns
                            ELSE Append(df.columns, col),
                !.rows = [i \in 1..Len(df.rows) |->
                            [df.rows[i] EXCEPT !.c =
                               [k \in cs |-> IF k = col THEN f(df.rows[i])
                                             ELSE df.rows[i].c[k]]]]]

(* Mutant of DropNa: the result of dropna is thrown away.                  *)
DropNaDiscarded(df, col) == df

(* df.dropna(subset=[col])                                                 *)
DropNa(df, col) ==
  [df EXCEPT !.rows = SelectSeq2(df.rows,
                        { i \in 1..Len(df.rows) : ~IsNull(df.rows[i].c[col]) })]

(* df[mask]                                                                *)
Filter(df, keep(_)) ==
  [df EXCEPT !.rows = SelectSeq2(df.rows, { i \in 1..Len(df.rows) : keep(df.rows[i]) })]

----------------------------------------------------------------------------
(* The conversions of the cleaning step.                                   *)

IsIntLiteral(s) ==
  LET body == IF Len(s) > 0 /\ s[1] = "-" THEN Tail(s) ELSE s
  IN /\ Len(body) > 0
     /\ \A i \in 1..Len(body) : IsDigit(body[i])

DigitsValue(s) ==
  LET F[i \in 0..Len(s)] == IF i = 0 THEN 0 ELSE 10 * F[i - 1] + DigitVal(s[i])
  IN F[Len(s)]

(* Mutant of to_numeric: a negative amount is coerced to NaN as well.      *)
to_numeric_nonneg(c) ==
  IF c.t = "num" THEN (IF c.n < 0 THEN NaN ELSE c)
  ELSE IF c.t = "str" /\ IsIntLiteral(c.s) /\ c.s[1] # "-"
       THEN Num(DigitsValue(c.s))
       ELSE NaN

(* pd.to_numeric(..., errors='coerce') on one cell: a number stays, text   *)
(* that is a (signed) decimal integer literal becomes its value, anything  *)
(* else becomes NaN.                                                       *)
to_numeric(c) ==
  IF c.t = "num" THEN c
  ELSE IF c.t = "str" /\ IsIntLiteral(c.s)
       THEN IF c.s[1] = "-" THEN Num(0 - DigitsValue(Tail(c.s)))
            ELSE Num(DigitsValue(c.s))
       ELSE NaN

MonthAbbr ==
  << <<"J","a","n">>, <<"F","e","b">>, <<"M","a","r">>, <<"A","p","r">>,
     <<"M","a","y">>, <<"J","u","n">>, <<"J","u","l">>, <<"A","u","g">>,
     <<"S","e","p">>, <<"O","c","t">>, <<"N","o","v">>, <<"D","e","c">> >>

(* %y: 00..68 are 2000..2068, 69..99 are 1969..1999.                       *)
FullYear(yy) == IF yy <= 68 THEN 2000 + yy ELSE 1900 + yy

(* pd.to_datetime(..., format='%b-%y', errors='coerce') on one cell: the   *)
(* whole text must be a month abbreviation, a dash and two digits.  A date *)
(* is kept as months since year 0 (the day is always the 1st).             *)
to_datetime(c) ==
  IF c.t = "date" THEN c
  ELSE IF /\ c.t = "str"
          /\ Len(c.s) = 6
          /\ IndexOf(MonthAbbr, SubSeq(c.s, 1, 3)) # 0
          /\ c.s[4] = "-"
          /\ IsDigit(c.s[5]) /\ IsDigit(c.s[6])
       THEN Date(12 * FullYear(DigitsValue(SubSeq(c.s, 5, 6)))
                 + IndexOf(MonthAbbr, SubSeq(c.s, 1, 3)) - 1)
       ELSE NaN

----------------------------------------------------------------------------
(* Series arithmetic.  A mean or a median is a fraction num/den, den > 0.  *)

Rat(num, den) == [num |-> num, den |-> den]

RatLess(a, b) == a.num * b.den < b.num * a.den

SumSeq(vals) ==
  LET F[i \in 0..Len(vals)] == IF i = 0 THEN 0 ELSE F[i - 1] + vals[i]
  IN F[Len(vals)]

(* The values at or after every earlier one: a stable descending sort,     *)
(* which is the order nlargest(keep='first') returns.                      *)
InsertDescBy(sorted, x, key(_)) ==
  LET p == Cardinality({ i \in 1..Len(sorted) : key(sorted[i]) >= key(x) })
  IN SubSeq(sorted, 1, p) \o << x >> \o SubSeq(sorted, p + 1, Len(sorted))

SortDescBy(seq, key(_)) ==
  LET F[i \in 0..Len(seq)] ==
        IF i = 0 THEN << >> ELSE InsertDescBy(F[i - 1], seq[i], key)
  IN F[Len(seq)]

InsertAscBy(sorted, x, key(_)) ==
  LET p == Cardinality({ i \in 1..Len(sorted) : key(sorted[i]) <= key(x) })
  IN SubSeq(sorted, 1, p) \o << x >> \o SubSeq(sorted, p + 1, Len(sorted))

SortAscBy(seq, key(_)) ==
  LET F[i \in 0..Len(seq)] ==
        IF i = 0 THEN << >> ELSE InsertAscBy(F[i - 1], seq[i], key)
  IN F[Len(seq)]

Min2(a, b) == IF a < b THEN a ELSE b

Head_n(seq, n) == SubSeq(seq, 1, IF Len(seq) < n THEN Len(seq) ELSE n)

IntKey(v) == v

SortedVals(vals) == SortAscBy(vals, IntKey)

(* Series.mean()                                                           *)
Mean(vals) == Rat(SumSeq(vals), Len(vals))

(* Series.median(): the middle value, or the mean of the two middle ones.  *)
Median(vals) ==
  LET a == SortedVals(vals)
      n == Len(vals)
  IN IF n % 2 = 1 THEN Rat(a[(n + 1) \div 2], 1)
     ELSE Rat(a[n \div 2] + a[n \div 2 + 1], 2)

(* Series.quantile(qnum/qden), linear interpolation between the two order  *)
(* statistics around position (n-1)*q.                                     *)
Quantile(vals, qnum, qden) ==
  LET a == SortedVals(vals)
      n == Len(vals)
      lo == ((n - 1) * qnum) \div qden
      fr == ((n - 1) * qnum) % qden
      hi == IF lo + 2 <= n THEN lo + 2 ELSE n
  IN Rat(qden * a[lo + 1] + fr * (a[hi] - a[lo + 1]), qden)

----------------------------------------------------------------------------
(* f"${x:,.0f}": round half to even, thousands separators, the sign of x   *)
(* (a negative x that rounds to zero prints as -0).                        *)

RoundHalfEven(r) ==
  LET f == r.num \div r.den
      rem == r.num - f * r.den
  IN IF 2 * rem < r.den THEN f
     ELSE IF 2 * rem > r.den THEN f + 1
     ELSE IF f % 2 = 0 THEN f ELSE f + 1

Pad(n, width) ==
  IF width = 2 THEN ToString((n \div 10) % 10) \o ToString(n % 10)
  ELSE ToString((n \div 100) % 10) \o ToString((n \div 10) % 10) \o ToString(n % 10)

RECURSIVE Grouped(_)
Grouped(n) ==
  IF n < 1000 THEN ToString(n)
  ELSE Grouped(n \div 1000) \o "," \o Pad(n % 1000, 3)

FormatCurrency(r) ==
  LET v == RoundHalfEven(r)
      mag == IF v < 0 THEN 0 - v ELSE v
  IN "$" \o (IF r.num < 0 THEN "-" ELSE "") \o Grouped(mag)

MonthText ==
  << "Jan", "Feb", "Mar", "Apr", "May", "Jun",
     "Jul", "Aug", "Sep", "Oct", "Nov", "Dec" >>

(* strftime('%Y-%m-%d') and strftime('%b %Y') of a month-granular date.    *)
FormatIsoDate(d) ==
  ToString(d.ym \div 12) \o "-" \o Pad((d.ym % 12) + 1, 2) \o "-01"

FormatMonthYear(d) ==
  MonthText[(d.ym % 12) + 1] \o " " \o ToString(d.ym \div 12)

----------------------------------------------------------------------------
(* Program constants.                                                      *)

stage_order ==
  << <<"P","r","e","-","S","e","e","d">>,
     <<"S","e","e","d">>,
     <<"A","n","g","e","l">>,
     <<"S","e","r","i","e","s"," ","A">>,
     <<"S","e","r","i","e","s"," ","B">>,
     <<"S","e","r","i","e","s"," ","C">>,
     <<"S","e","r","i","e","s"," ","D">>,
     <<"S","e","r","i","e","s"," ","E">>,
     <<"S","e","r","i","e","s"," ","F">>,
     <<"S","e","r","i","e","s"," ","G">>,
     <<"S","e","r","i","e","s"," ","H">>,
     <<"I","C","O">>,
     <<"D","e","b","t"," ","F","i","n","a","n","c","i","n","g">>,
     <<"P","r","i","v","a","t","e"," ","E","q","u","i","t","y">>,
     <<"C","r","o","w","d","f","u","n","d","i","n","g">>,
     <<"G","r","a","n","t">>,
     <<"U","n","k","n","o","w","n">>,
     <<"U","n","d","i","s","c","l","o","s","e","d">> >>

All == <<"A","l","l">>

SliderMin == 3
SliderMax == 20
SliderDefault == 10
RecentDeals == 20
TopRoundsN == 10
QuantileNum == 995
QuantileDen == 1000

EmptyFrame == DataFrame(<< >>, << >>)

----------------------------------------------------------------------------
(* Lines 31-55: the cleaning block.                                        *)

AmountOf(r) == r.c[AMOUNT].n

AmountVals(df) == [i \in 1..Len(df.rows) |-> AmountOf(df.rows[i])]

(* Lines 40-41.                                                            *)
CleanAmount(df) ==
  DropNa(AssignColumn(df, AMOUNT, LAMBDA r : to_numeric(r.c[AMOUNT])), AMOUNT)

(* Lines 46-48.                                                            *)
CleanDate(df) ==
  IF HasColumn(df, FDATE)
  THEN DropNa(AssignColumn(df, FDATE, LAMBDA r : to_datetime(r.c[FDATE])), FDATE)
  ELSE df

(* Mutant of final_rows: the row count taken before cleaning (line 32).    *)
initial_rows(df) == Len(df_raw.rows)

(* Line 50.                                                                *)
final_rows(df) == Len(df.rows)

----------------------------------------------------------------------------
(* Lines 79-94: grouped totals.                                            *)

RECURSIVE SortKeys(_)
SortKeys(S) ==
  IF S = {} THEN << >>
  ELSE LET m == CHOOSE x \in S : \A y \in S \ {x} : StrLess(x, y)
       IN << m >> \o SortKeys(S \ {m})

(* groupby(col): the distinct non-null keys in sorted order.               *)
GroupKeys(df, col) ==
  SortKeys({ df.rows[i].c[col].s :
               i \in { j \in 1..Len(df.rows) : ~IsNull(df.rows[j].c[col]) } })

GroupVals(df, col, key) ==
  AmountVals(Filter(df, LAMBDA r : r.c[col] = Str(key)))

(* df.groupby(col)['Funding Amount (USD)'].sum()                           *)
GroupBySum(df, col) ==
  LET keys == GroupKeys(df, col)
  IN [i \in 1..Len(keys) |->
        [key |-> keys[i], total |-> SumSeq(GroupVals(df, col, keys[i]))]]

TotalOf(g) == g.total

(* Mutant of SeriesNLargest: head(k) of the grouped totals, unsorted.       *)
SeriesHead(series, k) == Head_n(series, k)

(* Series.nlargest(k)                                                      *)
SeriesNLargest(series, k) == Head_n(SortDescBy(series, TotalOf), k)

(* Line 80.                                                                *)
TopKByGroup(df, col, k) == SeriesNLargest(GroupBySum(df, col), k)

(* Line 91: the label of every returned group becomes its first            *)
(* comma-separated token, stripped.                                        *)
RelabelFirstToken(series) ==
  [i \in 1..Len(series) |-> [series[i] EXCEPT !.key = Strip(FirstToken(@))]]

(* Lines 89-91.                                                            *)
VerticalFunding(df, k) == RelabelFirstToken(TopKByGroup(df, VERTICAL, k))

----------------------------------------------------------------------------
(* Lines 107-118: the stage box plot.                                      *)

(* pd.Categorical(values, categories=stage_order, ordered=True): the code  *)
(* of a listed stage, NaN for anything else.                               *)
StageCategory(c) ==
  IF c.t = "str" /\ IndexOf(stage_order, c.s) # 0
  THEN Cat(IndexOf(stage_order, c.s))
  ELSE NaN

(* Line 109.                                                               *)
CutoffThreshold(df) == Quantile(AmountVals(df), QuantileNum, QuantileDen)

(* Line 110.                                                               *)
WithStageCat(df) ==
  AssignColumn(df, STAGE_CAT, LAMBDA r : StageCategory(r.c[STAGE]))

(* Mutant of PlotData: the cutoff itself is kept (<= for <).               *)
PlotDataInclusive(df, cutoff) ==
  Filter(DropNa(df, STAGE_CAT), LAMBDA r : ~RatLess(cutoff, Rat(AmountOf(r), 1)))

(* Lines 111-112.                                                          *)
PlotData(df, cutoff) ==
  Filter(DropNa(df, STAGE_CAT), LAMBDA r : RatLess(Rat(AmountOf(r), 1), cutoff))

(* Line 114: sort_values('Funding Stage Cat').  Within one stage the rows  *)
(* keep their order here, as they do in numpy's sort up to 16 rows; beyond *)
(* that the order within a stage is unspecified, and no property reads it. *)
SortByStageCat(df) ==
  [df EXCEPT !.rows = SortAscBy(df.rows, LAMBDA r : r.c[STAGE_CAT].code)]

(* Mutant of DropStageCat: the transient column is never dropped.          *)
KeepStageCat(df) == df

(* Lines 117-118.                                                          *)
DropStageCat(df) ==
  IF HasColumn(df, STAGE_CAT) THEN DropColumns(df, << STAGE_CAT >>) ELSE df

----------------------------------------------------------------------------
(* Lines 122-131: the per-stage summary.                                   *)

(* Line 123: one row per group, in sorted key order.                       *)
StageAgg(df) ==
  LET keys == GroupKeys(df, STAGE)
  IN [i \in 1..Len(keys) |->
        LET vals == GroupVals(df, STAGE, keys[i])
        IN [stage |-> keys[i], count |-> Len(vals), sum |-> SumSeq(vals),
            mean |-> Mean(vals), median |-> Median(vals),
            sort_order |-> IndexOf(stage_order, keys[i]) - 1]]

(* Mutant of SortBySortOrder: na_position='first'.                         *)
SortBySortOrderNaFirst(rows) ==
  LET known == SelectSeq2(rows, { i \in 1..Len(rows) : rows[i].sort_order >= 0 })
      unknown == SelectSeq2(rows, { i \in 1..Len(rows) : rows[i].sort_order < 0 })
  IN unknown \o SortAscBy(known, LAMBDA r : r.sort_order)

(* Lines 125-127: rows of listed stages by their position in stage_order,  *)
(* then (na_position='last') the rows without one, in the order they had.  *)
SortBySortOrder(rows) ==
  LET known == SelectSeq2(rows, { i \in 1..Len(rows) : rows[i].sort_order >= 0 })
      unknown == SelectSeq2(rows, { i \in 1..Len(rows) : rows[i].sort_order < 0 })
  IN SortAscBy(known, LAMBDA r : r.sort_order) \o unknown

(* Lines 124, 128-131.                                                     *)
FormatSummary(rows) ==
  [i \in 1..Len(rows) |->
     [stage |-> rows[i].stage,
      deals |-> rows[i].count,
      total |-> FormatCurrency(Rat(rows[i].sum, 1)),
      average |-> FormatCurrency(rows[i].mean),
      median |-> FormatCurrency(rows[i].median)]]

StageSummaryTable(df) == FormatSummary(SortBySortOrder(StageAgg(df)))

----------------------------------------------------------------------------
(* Lines 140-178: the region filter and the largest rounds.                *)

Text(s) == [t |-> "text", s |-> s]

(* Line 141, without the leading 'All'.                                    *)
RegionNames(df) == GroupKeys(df, REGION)

region_options(df) == << All >> \o RegionNames(df)

(* DataFrame.nlargest(n, col) on a numeric or datetime column.             *)
NLargest(df, n, key(_)) == [df EXCEPT !.rows = Head_n(SortDescBy(df.rows, key), n)]

DateOf(r) == r.c[FDATE].ym

(* Mutant of RecentRows: the 20 largest amounts, as in the other top-N     *)
(* views.                                                                  *)
LargestRows(df) == NLargest(df, RecentDeals, AmountOf)

(* Line 148.                                                               *)
RecentRows(df) == NLargest(df, RecentDeals, DateOf)

(* Line 151.                                                               *)
RegionRows(df, region) == Filter(df, LAMBDA r : r.c[REGION] = Str(region))

(* is_datetime64_any_dtype(df['Funding Date'])                             *)
IsDatetimeColumn(df, col) ==
  \A i \in 1..Len(df.rows) : df.rows[i].c[col].t \in {"date", "nan"}

ExistingColumns(df, wanted) ==
  SelectSeq2(wanted, { i \in 1..Len(wanted) : HasColumn(df, wanted[i]) })

FormatCell(c, col, datefmt(_)) ==
  IF col = AMOUNT THEN Text(FormatCurrency(Rat(c.n, 1)))
  ELSE IF col = FDATE /\ c.t = "date" THEN Text(datefmt(c))
  ELSE c

FormatFrame(df, datefmt(_)) ==
  [df EXCEPT !.rows = [i \in 1..Len(df.rows) |->
      [df.rows[i] EXCEPT !.c =
         [k \in ColumnSet(df) |-> FormatCell(df.rows[i].c[k], k, datefmt)]]]]

ResetIndex(df) ==
  [df EXCEPT !.rows = [i \in 1..Len(df.rows) |-> [df.rows[i] EXCEPT !.idx = i - 1]]]

(* Lines 154-162.                                                          *)
RegionTable(df) ==
  ResetIndex(FormatFrame(
    Project(df, ExistingColumns(df,
      << COMPANY, VERTICAL, AMOUNT, STAGE, FDATE, REGION >>)), FormatIsoDate))

(* Lines 170-173.                                                          *)
columns_to_select(df) ==
  << COMPANY, AMOUNT, VERTICAL, REGION, STAGE >>
    \o (IF IsDatetimeColumn(df, FDATE) THEN << FDATE >> ELSE << >>)

(* Lines 174-177.                                                          *)
TopCompanies(df) ==
  FormatFrame(ResetIndex(
    Project(NLargest(df, TopRoundsN, AmountOf), columns_to_select(df))), FormatMonthYear)

----------------------------------------------------------------------------
(* The script, block by block.                                             *)

ZeroMetrics == [total |-> 0, mean |-> Rat(0, 1), median |-> Rat(0, 1)]

(* Lines 24-29.                                                            *)
Load ==
  /\ pc = "load"
  /\ IF df_raw.isNone
     THEN pc' = "halted" /\ error' = "LoadFailed"
     ELSE pc' = "clean" /\ error' = error
  /\ UNCHANGED << df_raw, df_cleaned, sliders, selected_region, views, emitted >>

(* Lines 31-55.                                                            *)
Clean ==
  /\ pc = "clean"
  /\ LET d0 == DropColumns(df_raw, columns_to_drop)
     IN IF ~HasColumn(d0, AMOUNT)
        THEN /\ df_cleaned' = d0
             /\ pc' = "halted"
             /\ error' = "MissingColumn"
             /\ emitted' = emitted
        ELSE LET d2 == CleanDate(CleanAmount(d0))
             IN /\ df_cleaned' = d2
                /\ IF final_rows(d2) = 0
                   THEN /\ pc' = "halted"
                        /\ error' = "EmptyResult"
                        /\ emitted' = emitted
                   ELSE /\ pc' = "metrics"
                        /\ error' = error
                        /\ emitted' = Append(emitted, "alert:processed")
  /\ UNCHANGED << df_raw, sliders, selected_region, views >>

(* Lines 59-67.                                                            *)
AggregateMetrics ==
  /\ pc = "metrics"
  /\ metrics' = [total |-> SumSeq(AmountVals(df_cleaned)),
                 mean |-> Mean(AmountVals(df_cleaned)),
                 median |-> Median(AmountVals(df_cleaned))]
  /\ emitted' = Append(emitted, "text:metrics")
  /\ pc' = "region_chart"
  /\ UNCHANGED << error, df_raw, df_cleaned, sliders, selected_region,
                  region_funding, vertical_funding, df_plot_data, box_input,
                  stage_summary, display_df, region_table, top_companies >>

(* Lines 77-84.                                                            *)
RegionChart ==
  /\ pc = "region_chart"
  /\ IF HasColumn(df_cleaned, REGION)
     THEN LET rf == TopKByGroup(df_cleaned, REGION, sliders.n_regions)
          IN /\ region_funding' = rf
             /\ emitted' = IF rf # << >> THEN Append(emitted, "plotly:region")
                           ELSE emitted
     ELSE UNCHANGED << region_funding, emitted >>
  /\ pc' = "vertical_chart"
  /\ UNCHANGED << error, df_raw, df_cleaned, sliders, selected_region, metrics,
                  vertical_funding, df_plot_data, box_input, stage_summary,
                  display_df, region_table, top_companies >>

(* Lines 86-94.                                                            *)
VerticalChart ==
  /\ pc = "vertical_chart"
  /\ IF HasColumn(df_cleaned, VERTICAL)
     THEN LET vf == VerticalFunding(df_cleaned, sliders.n_verticals)
          IN /\ vertical_funding' = vf
             /\ emitted' = IF vf # << >> THEN Append(emitted, "plotly:vertical")
                           ELSE emitted
     ELSE UNCHANGED << vertical_funding, emitted >>
  /\ pc' = "stage_box"
  /\ UNCHANGED << error, df_raw, df_cleaned, sliders, selected_region, metrics,
                  region_funding, df_plot_data, box_input, stage_summary,
                  display_df, region_table, top_companies >>

(* Lines 100-118.                                                          *)
StageBoxplotView ==
  /\ pc = "stage_box"
  /\ IF HasColumn(df_cleaned, STAGE)
     THEN LET cutoff == CutoffThreshold(df_cleaned)
              tagged == WithStageCat(df_cleaned)
              plot == PlotData(tagged, cutoff)
          IN /\ df_plot_data' = plot
             /\ IF plot.rows # << >>
                THEN /\ box_input' = SortByStageCat(plot)
                     /\ emitted' = Append(emitted, "plotly:stage")
                ELSE UNCHANGED << box_input, emitted >>
             /\ df_cleaned' = DropStageCat(tagged)
     ELSE UNCHANGED << df_plot_data, box_input, emitted, df_cleaned >>
  /\ pc' = "stage_summary"
  /\ UNCHANGED << error, df_raw, sliders, selected_region, metrics,
                  region_funding, vertical_funding, stage_summary, display_df,
                  region_table, top_companies >>

(* Lines 120-131.                                                          *)
StageSummary ==
  /\ pc = "stage_summary"
  /\ IF HasColumn(df_cleaned, STAGE)
     THEN /\ stage_summary' = StageSummaryTable(df_cleaned)
          /\ emitted' = Append(emitted, "table:stage_summary")
     ELSE UNCHANGED << stage_summary, emitted >>
  /\ pc' = "region_filter"
  /\ UNCHANGED << error, df_raw, df_cleaned, sliders, selected_region, metrics,
                  region_funding, vertical_funding, df_plot_data, box_input,
                  display_df, region_table, top_companies >>

(* Lines 138-164.  The selectbox offers region_options; the user's choice  *)
(* is any of them.  nlargest on a column the frame lacks raises KeyError,  *)
(* which nothing catches.                                                  *)
RegionFilter ==
  /\ pc = "region_filter"
  /\ IF HasColumn(df_cleaned, REGION)
     THEN \E choice \in 1..Len(region_options(df_cleaned)) :
            LET sel == region_options(df_cleaned)[choice]
            IN /\ selected_region' = sel
               /\ IF sel = All /\ ~HasColumn(df_cleaned, FDATE)
                  THEN /\ pc' = "crashed"
                       /\ error' = "KeyError"
                       /\ UNCHANGED << display_df, region_table, emitted >>
                  ELSE LET shown == IF sel = All THEN RecentRows(df_cleaned)
                                    ELSE RegionRows(df_cleaned, sel)
                       IN /\ display_df' = shown
                          /\ IF shown.rows # << >>
                             THEN /\ region_table' = RegionTable(shown)
                                  /\ emitted' = Append(emitted, "table:region")
                             ELSE /\ region_table' = region_table
                                  /\ emitted' = Append(emitted, "alert:no_deals")
                          /\ pc' = "top_rounds"
                          /\ error' = error
     ELSE /\ pc' = "top_rounds"
          /\ UNCHANGED << selected_region, display_df, region_table, emitted, error >>
  /\ UNCHANGED << df_raw, df_cleaned, sliders, metrics, region_funding,
                  vertical_funding, df_plot_data, box_input, stage_summary,
                  top_companies >>

(* Lines 167-178.  Selecting a column the frame lacks raises KeyError.     *)
TopNByAmount ==
  /\ pc = "top_rounds"
  /\ IF HasColumn(df_cleaned, COMPANY) /\ HasColumn(df_cleaned, FDATE)
     THEN LET cols == columns_to_select(df_cleaned)
          IN IF \E i \in 1..Len(cols) : ~HasColumn(df_cleaned, cols[i])
             THEN /\ pc' = "crashed"
                  /\ error' = "KeyError"
                  /\ UNCHANGED << top_companies, emitted >>
             ELSE /\ top_companies' = TopCompanies(df_cleaned)
                  /\ emitted' = Append(emitted, "table:top_companies")
                  /\ pc' = "seed_query"
                  /\ error' = error
     ELSE /\ pc' = "seed_query"
          /\ UNCHANGED << top_companies, emitted, error >>
  /\ UNCHANGED << df_raw, df_cleaned, sliders, selected_region, metrics,
                  region_funding, vertical_funding, df_plot_data, box_input,
                  stage_summary, display_df, region_table >>

(* Lines 183-212.  The query runs in the data layer, outside this script. *)
(* Whatever it yields (rows, no rows, None, an exception) the script makes *)
(* exactly one presentation call and goes on.                              *)
SeedQuery ==
  /\ pc = "seed_query"
  /\ emitted' = Append(emitted, "seed_query:reported")
  /\ pc' = "done"
  /\ UNCHANGED << error, df_raw, df_cleaned, sliders, selected_region, views >>

Next ==
  \/ Load
  \/ Clean
  \/ AggregateMetrics
  \/ RegionChart
  \/ VerticalChart
  \/ StageBoxplotView
  \/ StageSummary
  \/ RegionFilter
  \/ TopNByAmount
  \/ SeedQuery

(* The state before line 24, for the raw frame the connector returns and   *)
(* the positions of the two sliders.                                       *)
Start(raw, n_regions, n_verticals) ==
  /\ pc = "load"
  /\ error = "none"
  /\ df_raw = raw
  /\ df_cleaned = EmptyFrame
  /\ sliders = [n_regions |-> n_regions, n_verticals |-> n_verticals]
  /\ selected_region = << >>
  /\ metrics = ZeroMetrics
  /\ region_funding = << >>
  /\ vertical_funding = << >>
  /\ df_plot_data = EmptyFrame
  /\ box_input = EmptyFrame
  /\ stage_summary = << >>
  /\ display_df = EmptyFrame
  /\ region_table = EmptyFrame
  /\ top_companies = EmptyFrame
  /\ emitted = << >>

----------------------------------------------------------------------------
(* Inputs.  A raw frame is what read_csv gives: text cells, NaN for an     *)
(* empty cell, a RangeIndex.                                               *)

T_100 == Str(<<"1","0","0">>)
T_200 == Str(<<"2","0","0">>)
T_300 == Str(<<"3","0","0">>)
T_50 == Str(<<"5","0">>)
T_1500 == Str(<<"1","5","0","0">>)
T_5000 == Str(<<"5","0","0","0">>)
T_neg5 == Str(<<"-","5">>)
T_abc == Str(<<"a","b","c">>)

T_Jan20 == Str(<<"J","a","n","-","2","0">>)
T_Feb20 == Str(<<"F","e","b","-","2","0">>)
T_Mar21 == Str(<<"M","a","r","-","2","1">>)
T_Jun21 == Str(<<"J","u","n","-","2","1">>)
T_Dec99 == Str(<<"D","e","c","-","9","9">>)
T_iso == Str(<<"2","0","2","0","-","0","1">>)

T_US == Str(<<"U","S">>)
T_EU == Str(<<"E","U">>)
T_AS == Str(<<"A","S">>)
T_AF == Str(<<"A","F">>)

T_AI == Str(<<"A","I">>)
T_AI_ML == Str(<<"A","I",","," ","M","L">>)
T_Bio == Str(<<" ","B","i","o"," ",",","X">>)
T_Fin == Str(<<"F","i","n">>)

T_Seed == Str(<<"S","e","e","d">>)
T_PreSeed == Str(<<"P","r","e","-","S","e","e","d">>)
T_Angel == Str(<<"A","n","g","e","l">>)
T_Bridge == Str(<<"B","r","i","d","g","e">>)
T_Venture == Str(<<"V","e","n","t","u","r","e">>)

T_Acme == Str(<<"A","c","m","e">>)

SchemaSet == { SchemaColumns[i] : i \in 1..Len(SchemaColumns) }

Row(company, region, vertical, amount, stage, date) ==
  [k \in SchemaSet |->
     CASE k = COMPANY -> company
       [] k = REGION -> region
       [] k = VERTICAL -> vertical
       [] k = AMOUNT -> amount
       [] k = STAGE -> stage
       [] k = FDATE -> date
       [] OTHER -> T_Acme]

(* The frame with the columns of the schema at the positions in keep.      *)
RawFrame(keep, fullRows) ==
  LET cols == SelectSeq2(SchemaColumns, keep)
  IN DataFrame(cols,
       [i \in 1..Len(fullRows) |->
          [idx |-> i - 1,
           c |-> [k \in { cols[j] : j \in 1..Len(cols) } |-> fullRows[i][k]]]])

SeqsUpTo(S, n) == UNION { [1..m -> S] : m \in 0..n }

AllPositions == 1..Len(SchemaColumns)

Without(names) == { i \in AllPositions : SchemaColumns[i] \notin names }

(* Bounds of the input families.                                           *)
MaxRowsClean == 2
MaxRowsCols == 1
MaxRowsGroup == 4
MaxRowsStage == 3
MaxRowsRecent == 22
SliderTop == 4

(* Cleaning: every mix of amount and date cells, with and without the      *)
(* amount and date columns, and the connector returning None.              *)
CleanRows ==
  { Row(T_Acme, T_US, T_AI, a, T_Seed, d) :
      a \in { T_100, T_neg5, T_abc, NaN }, d \in { T_Jan20, T_iso, NaN } }

CleanFrames ==
  { RawFrame(keep, rows) :
      keep \in { AllPositions, Without({AMOUNT}), Without({FDATE}),
                 Without({AMOUNT, FDATE}) },
      rows \in SeqsUpTo(CleanRows, MaxRowsClean) } \cup { NoneFrame }

Init == \E raw \in CleanFrames : Start(raw, SliderDefault, SliderDefault)

Spec == Init /\ [][Next]_vars

(* Optional columns: every subset of the schema's columns.                 *)
ColsRows ==
  { Row(T_Acme, T_US, T_AI, T_100, T_Seed, T_Jan20),
    Row(T_Acme, T_EU, T_Fin, T_300, T_Bridge, T_Mar21) }

ColsFrames ==
  { RawFrame(keep, rows) :
      keep \in SUBSET AllPositions, rows \in SeqsUpTo(ColsRows, MaxRowsCols) }

InitCols == \E raw \in ColsFrames : Start(raw, SliderDefault, SliderDefault)

SpecCols == InitCols /\ [][Next]_vars

(* Grouping: regions and verticals with shared first tokens, equal totals, *)
(* missing keys, and more groups than the smallest slider position.        *)
GroupRows ==
  { Row(T_Acme, T_US, T_AI, T_100, T_Seed, T_Jan20),
    Row(T_Acme, T_EU, T_AI_ML, T_200, T_Seed, T_Jan20),
    Row(T_Acme, T_AS, T_Bio, T_300, T_Seed, T_Jan20),
    Row(T_Acme, T_AF, T_Fin, T_100, T_Seed, T_Jan20),
    Row(T_Acme, NaN, NaN, T_50, T_Seed, T_Jan20) }

InitGroup ==
  \E rows \in SeqsUpTo(GroupRows, MaxRowsGroup) :
    \E k \in SliderMin..Min2(SliderTop, SliderMax) :
      Start(RawFrame(AllPositions, rows), k, k)

SpecGroup == InitGroup /\ [][Next]_vars

(* Stages: listed and unlisted stages, a missing stage, with and without   *)
(* the stage column.                                                       *)
StageRows ==
  { Row(T_Acme, T_US, T_AI, T_100, T_Seed, T_Jan20),
    Row(T_Acme, T_US, T_AI, T_300, T_Seed, T_Jan20),
    Row(T_Acme, T_US, T_AI, T_200, T_Angel, T_Jan20),
    Row(T_Acme, T_US, T_AI, T_5000, T_PreSeed, T_Jan20),
    Row(T_Acme, T_US, T_AI, T_100, T_Bridge, T_Jan20),
    Row(T_Acme, T_US, T_AI, T_1500, T_Venture, T_Jan20),
    Row(T_Acme, T_US, T_AI, T_50, NaN, T_Jan20) }

InitStage ==
  \E rows \in SeqsUpTo(StageRows, MaxRowsStage) :
    \E keep \in { AllPositions, Without({STAGE}) } :
      Start(RawFrame(keep, rows), SliderDefault, SliderDefault)

SpecStage == InitStage /\ [][Next]_vars

(* Recency: long frames whose dates and regions cycle through a list.      *)
DateCycle == << T_Jan20, T_Mar21, T_Feb20, T_Dec99, T_Jun21, T_iso >>

RegionCycle == << T_US, T_EU, NaN >>

AmountCycle == << T_100, T_300, T_50, T_200 >>

CycleRows(n, step, shift, regions) ==
  [i \in 1..n |->
     Row(T_Acme, RegionCycle[(i % regions) + 1], T_AI,
         AmountCycle[(i % Len(AmountCycle)) + 1], T_Seed,
         DateCycle[((step * i + shift) % Len(DateCycle)) + 1])]

InitRecent ==
  \E n \in 0..MaxRowsRecent :
    \E step \in {1, 2, 5}, shift \in {0, 3}, regions \in {1, 3} :
      Start(RawFrame(AllPositions, CycleRows(n, step, shift, regions)),
            SliderDefault, SliderDefault)

SpecRecent == InitRecent /\ [][Next]_vars

----------------------------------------------------------------------------
(* Properties.                                                             *)

ScriptOrder ==
  << "load", "clean", "metrics", "region_chart", "vertical_chart", "stage_box",
     "stage_summary", "region_filter", "top_rounds", "seed_query", "done" >>

(* The block named step has run and the script is still going or is done.  *)
Past(step) == IndexOf(ScriptOrder, pc) > IndexOf(ScriptOrder, step)

CleanSucceeded == Past("clean") \/ pc = "crashed"

RawRowOf(r) == df_raw.rows[r.idx + 1]

AmountParses(raw) == to_numeric(raw.c[AMOUNT]).t = "num"

DateParses(raw) ==
  HasColumn(df_raw, FDATE) => to_datetime(raw.c[FDATE]).t = "date"

PassingRows ==
  { i \in 1..Len(df_raw.rows) : AmountParses(df_raw.rows[i]) /\ DateParses(df_raw.rows[i]) }

NoViewProduced ==
  /\ emitted = << >>
  /\ metrics = ZeroMetrics
  /\ region_funding = << >> /\ vertical_funding = << >> /\ stage_summary = << >>
  /\ df_plot_data = EmptyFrame /\ box_input = EmptyFrame
  /\ display_df = EmptyFrame /\ region_table = EmptyFrame
  /\ top_companies = EmptyFrame

(* C1: once Clean has succeeded, every record of the cleaned dataset has a *)
(* numeric amount and, when the input has a date column, a date parsed in  *)
(* the %b-%y format; the records returned are exactly the input records    *)
(* whose amount and date both parse, in input order, and every other cell  *)
(* of a returned record is the input's cell.                               *)
C1_CleanKeepsExactlyTheValidRecords ==
  CleanSucceeded =>
    /\ [i \in 1..Len(df_cleaned.rows) |-> df_cleaned.rows[i].idx + 1]
         = SelectSeq2([i \in 1..Len(df_raw.rows) |-> i], PassingRows)
    /\ \A i \in 1..Len(df_cleaned.rows) :
         LET r == df_cleaned.rows[i]
         IN /\ r.c[AMOUNT].t = "num"
            /\ r.c[AMOUNT] = to_numeric(RawRowOf(r).c[AMOUNT])
            /\ HasColumn(df_raw, FDATE) =>
                 /\ r.c[FDATE].t = "date"
                 /\ r.c[FDATE] = to_datetime(RawRowOf(r).c[FDATE])
            /\ \A k \in ColumnSet(df_cleaned) \ {AMOUNT, FDATE} :
                 r.c[k] = RawRowOf(r).c[k]

(* A record with an unparseable date was dropped and another was kept.     *)
C1_Witness ==
  /\ CleanSucceeded
  /\ HasColumn(df_raw, FDATE)
  /\ Len(df_cleaned.rows) > 0
  /\ \E i \in 1..Len(df_raw.rows) :
       /\ AmountParses(df_raw.rows[i])
       /\ ~DateParses(df_raw.rows[i])

(* C2: Clean fails with MissingColumn exactly when the amount column is    *)
(* absent, with EmptyResult exactly when it is present and no record       *)
(* survives; either failure halts the run before anything is produced, and *)
(* in every other case Clean succeeds.                                     *)
C2_FatalErrorsExactly ==
  (pc \notin {"load", "clean"} /\ ~df_raw.isNone) =>
    /\ error = "MissingColumn" <=> ~HasColumn(df_raw, AMOUNT)
    /\ error = "EmptyResult" <=> (HasColumn(df_raw, AMOUNT) /\ PassingRows = {})
    /\ error \in {"MissingColumn", "EmptyResult"} => (pc = "halted" /\ NoViewProduced)
    /\ error \notin {"MissingColumn", "EmptyResult"} => CleanSucceeded

(* The input had records, none survived, and the run halted.               *)
C2_Witness ==
  /\ pc = "halted"
  /\ error = "EmptyResult"
  /\ Len(df_raw.rows) > 0

(* Text that reads as a number below zero: a minus sign and digits, not    *)
(* all of them zero.                                                       *)
NegativeLiteral(c) ==
  /\ c.t = "str"
  /\ Len(c.s) >= 2
  /\ c.s[1] = "-"
  /\ \A i \in 2..Len(c.s) : IsDigit(c.s[i])
  /\ \E i \in 2..Len(c.s) : c.s[i] # "0"

(* C9 as stated: no record of the cleaned dataset has a negative amount.   *)
C9_AmountsNonNegative ==
  CleanSucceeded =>
    \A i \in 1..Len(df_cleaned.rows) : df_cleaned.rows[i].c[AMOUNT].n >= 0

(* C9 as amended: the sign of an amount is not checked.  Every input       *)
(* record whose amount parses to a negative number (and whose date, if the *)
(* column exists, parses) is in the cleaned dataset with that negative     *)
(* amount, and the total of the aggregate metrics counts it.               *)
C9_NegativeAmountsPassThrough ==
  CleanSucceeded =>
    /\ \A i \in 1..Len(df_raw.rows) :
         (NegativeLiteral(df_raw.rows[i].c[AMOUNT]) /\ DateParses(df_raw.rows[i])) =>
           \E j \in 1..Len(df_cleaned.rows) :
             /\ df_cleaned.rows[j].idx = i - 1
             /\ df_cleaned.rows[j].c[AMOUNT] = Num(0 - DigitsValue(Tail(df_raw.rows[i].c[AMOUNT].s)))
    /\ Past("metrics") =>
         metrics.total = SumSeq([i \in 1..Len(df_cleaned.rows) |->
                                   df_cleaned.rows[i].c[AMOUNT].n])

(* A negative amount is in the cleaned dataset and in the total.           *)
C9_Witness ==
  /\ Past("metrics")
  /\ \E i \in 1..Len(df_cleaned.rows) : df_cleaned.rows[i].c[AMOUNT].n < 0
  /\ metrics.total < 0

(* C3 as stated: once Clean has succeeded, no combination of absent        *)
(* optional columns ends the run with an error.                            *)
C3_MissingOptionalColumnNeverFatal ==
  CleanSucceeded => (pc # "crashed" /\ error = "none")

(* The total of a group, counted over the cleaned records directly.        *)
TotalWhere(match(_)) ==
  SumSeq([i \in 1..Len(df_cleaned.rows) |->
            IF match(df_cleaned.rows[i]) THEN df_cleaned.rows[i].c[AMOUNT].n ELSE 0])

RegionTotal(key) == TotalWhere(LAMBDA r : r.c[REGION] = Str(key))

RegionsPresent ==
  { df_cleaned.rows[i].c[REGION].s :
      i \in { j \in 1..Len(df_cleaned.rows) : df_cleaned.rows[j].c[REGION].t = "str" } }

Returned(series) == { series[i].key : i \in 1..Len(series) }

(* What C5 says apart from the order of the pairs: at most k pairs (k when *)
(* there are that many groups), one per group, each with the sum of its    *)
(* group, and no omitted group with a larger sum than a returned one.      *)
TopKContent ==
  /\ Len(region_funding) = Min2(sliders.n_regions, Cardinality(RegionsPresent))
  /\ Returned(region_funding) \subseteq RegionsPresent
  /\ Cardinality(Returned(region_funding)) = Len(region_funding)
  /\ \A i \in 1..Len(region_funding) :
       region_funding[i].total = RegionTotal(region_funding[i].key)
  /\ \A g \in RegionsPresent \ Returned(region_funding) :
       \A i \in 1..Len(region_funding) : RegionTotal(g) <= region_funding[i].total

(* C5 as stated: the pairs are sorted strictly descending by sum.          *)
C5_TopKStrictlyDescending ==
  (Past("region_chart") /\ HasColumn(df_cleaned, REGION)) =>
    /\ TopKContent
    /\ \A i \in 1..Len(region_funding), j \in 1..Len(region_funding) :
         i < j => region_funding[i].total > region_funding[j].total

(* C5 as amended: the same, with the pairs in non-increasing order of sum  *)
(* (two groups with equal sums are both returned, next to each other).     *)
C5_TopKDescending ==
  (Past("region_chart") /\ HasColumn(df_cleaned, REGION)) =>
    /\ TopKContent
    /\ \A i \in 1..Len(region_funding), j \in 1..Len(region_funding) :
         i < j => region_funding[i].total >= region_funding[j].total

(* More groups than k, and the grouped order is not the returned order.    *)
C5_Witness ==
  /\ Past("region_chart")
  /\ Cardinality(RegionsPresent) > sliders.n_regions
  /\ Len(region_funding) = sliders.n_regions
  /\ \E i \in 1..Len(region_funding), j \in 1..Len(region_funding) :
       i < j /\ StrLess(region_funding[j].key, region_funding[i].key)

VerticalLabel(c) == Strip(FirstToken(c.s))

(* C4 as stated: the vertical totals are grouped by the trimmed first      *)
(* token, so no two entries carry the same label and every entry's total   *)
(* is the sum over all records whose vertical starts with that label.      *)
C4_VerticalsGroupedByFirstToken ==
  (Past("vertical_chart") /\ HasColumn(df_cleaned, VERTICAL)) =>
    /\ \A i \in 1..Len(vertical_funding), j \in 1..Len(vertical_funding) :
         i # j => vertical_funding[i].key # vertical_funding[j].key
    /\ \A i \in 1..Len(vertical_funding) :
         vertical_funding[i].total =
           TotalWhere(LAMBDA r : /\ r.c[VERTICAL].t = "str"
                                 /\ VerticalLabel(r.c[VERTICAL]) = vertical_funding[i].key)

(* The k-th smallest of a series, by counting.                             *)
KthSmallest(vals, k) ==
  CHOOSE v \in { vals[i] : i \in 1..Len(vals) } :
    /\ Cardinality({ i \in 1..Len(vals) : vals[i] < v }) < k
    /\ Cardinality({ i \in 1..Len(vals) : vals[i] <= v }) >= k

CleanedAmounts == [i \in 1..Len(df_cleaned.rows) |-> df_cleaned.rows[i].c[AMOUNT].n]

(* amount < the 99.5th percentile of all cleaned amounts, the percentile   *)
(* interpolated between the order statistics around 0.995 * (n - 1).       *)
BelowGlobalP995(amount) ==
  LET n == Len(df_cleaned.rows)
      pos == 995 * (n - 1)
      lower == KthSmallest(CleanedAmounts, (pos \div 1000) + 1)
      upper == KthSmallest(CleanedAmounts, Min2((pos \div 1000) + 2, n))
  IN 1000 * amount < 1000 * lower + (pos % 1000) * (upper - lower)

InVocabulary(c) == c.t = "str" /\ \E i \in 1..Len(stage_order) : stage_order[i] = c.s

VocabularyRank(c) == CHOOSE i \in 1..Len(stage_order) : stage_order[i] = c.s

Indices(df) == { df.rows[i].idx : i \in 1..Len(df.rows) }

(* C6: the box-plot view holds exactly the cleaned records whose stage is  *)
(* in the vocabulary and whose amount is below the 99.5th percentile of    *)
(* the whole cleaned dataset, sorted by vocabulary order of stage.         *)
C6_BoxplotExcludesOutliersAndUnknownStages ==
  (Past("stage_box") /\ HasColumn(df_cleaned, STAGE)) =>
    /\ Indices(df_plot_data) =
         { df_cleaned.rows[i].idx :
             i \in { j \in 1..Len(df_cleaned.rows) :
                       /\ InVocabulary(df_cleaned.rows[j].c[STAGE])
                       /\ BelowGlobalP995(df_cleaned.rows[j].c[AMOUNT].n) } }
    /\ Cardinality(Indices(df_plot_data)) = Len(df_plot_data.rows)
    /\ df_plot_data.rows # << >> =>
         /\ Indices(box_input) = Indices(df_plot_data)
         /\ Len(box_input.rows) = Len(df_plot_data.rows)
    /\ \A i \in 1..Len(box_input.rows) :
         LET r == box_input.rows[i]
         IN /\ InVocabulary(r.c[STAGE])
            /\ BelowGlobalP995(r.c[AMOUNT].n)
            /\ \E j \in 1..Len(df_cleaned.rows) :
                 /\ df_cleaned.rows[j].idx = r.idx
                 /\ \A k \in ColumnSet(df_cleaned) : df_cleaned.rows[j].c[k] = r.c[k]
    /\ \A i \in 1..Len(box_input.rows), j \in 1..Len(box_input.rows) :
         i < j => VocabularyRank(box_input.rows[i].c[STAGE])
                    <= VocabularyRank(box_input.rows[j].c[STAGE])

(* An outlier was dropped and the rows left were reordered by stage.       *)
C6_Witness ==
  /\ Past("stage_box")
  /\ Len(box_input.rows) >= 2
  /\ Len(box_input.rows) < Len(df_cleaned.rows)
  /\ \E i \in 1..Len(box_input.rows), j \in 1..Len(box_input.rows) :
       i < j /\ box_input.rows[i].idx > box_input.rows[j].idx

StagesPresent ==
  { df_cleaned.rows[i].c[STAGE].s :
      i \in { j \in 1..Len(df_cleaned.rows) : df_cleaned.rows[j].c[STAGE].t = "str" } }

StageAmounts(stage) ==
  LET at == { i \in 1..Len(df_cleaned.rows) : df_cleaned.rows[i].c[STAGE] = Str(stage) }
  IN SelectSeq2(CleanedAmounts, at)

MedianByCounting(vals) ==
  LET n == Len(vals)
  IN IF n % 2 = 1 THEN Rat(KthSmallest(vals, (n + 1) \div 2), 1)
     ELSE Rat(KthSmallest(vals, n \div 2) + KthSmallest(vals, n \div 2 + 1), 2)

(* C8: one row per distinct stage of the cleaned dataset (a record without *)
(* a stage belongs to none), with the count and the formatted sum, mean    *)
(* and median of that stage; rows of vocabulary stages in vocabulary       *)
(* order, every other row after them, these in the order the grouping gave *)
(* them (sorted by name).                                                  *)
C8_StageSummaryRowsAndOrder ==
  (Past("stage_summary") /\ HasColumn(df_cleaned, STAGE)) =>
    /\ { stage_summary[i].stage : i \in 1..Len(stage_summary) } = StagesPresent
    /\ Len(stage_summary) = Cardinality(StagesPresent)
    /\ \A i \in 1..Len(stage_summary) :
         LET vals == StageAmounts(stage_summary[i].stage)
         IN /\ stage_summary[i].deals = Len(vals)
            /\ stage_summary[i].total = FormatCurrency(Rat(SumSeq(vals), 1))
            /\ stage_summary[i].average = FormatCurrency(Rat(SumSeq(vals), Len(vals)))
            /\ stage_summary[i].median = FormatCurrency(MedianByCounting(vals))
    /\ \A i \in 1..Len(stage_summary), j \in 1..Len(stage_summary) :
         i < j =>
           LET a == Str(stage_summary[i].stage)
               b == Str(stage_summary[j].stage)
           IN /\ ~InVocabulary(a) => ~InVocabulary(b)
              /\ (InVocabulary(a) /\ InVocabulary(b)) =>
                   VocabularyRank(a) < VocabularyRank(b)
              /\ (~InVocabulary(a) /\ ~InVocabulary(b)) => StrLess(a.s, b.s)

(* Two vocabulary stages whose vocabulary order is not their name order,   *)
(* and a stage outside the vocabulary whose name sorts before theirs.      *)
C8_Witness ==
  /\ Past("stage_summary")
  /\ Len(stage_summary) = 3
  /\ InVocabulary(Str(stage_summary[1].stage))
  /\ InVocabulary(Str(stage_summary[2].stage))
  /\ StrLess(stage_summary[2].stage, stage_summary[1].stage)
  /\ ~InVocabulary(Str(stage_summary[3].stage))
  /\ StrLess(stage_summary[3].stage, stage_summary[1].stage)

(* C10: the box-plot block leaves the cleaned dataset as it found it: the  *)
(* same columns and the same records in the same order, without the        *)
(* 'Funding Stage Cat' column, whether or not a stage column exists and    *)
(* whether or not there is anything to plot.                               *)
C10_BoxplotLeavesCleanedDatasetUnchanged ==
  [][pc = "stage_box" =>
       /\ df_cleaned' = df_cleaned
       /\ ~HasColumn(df_cleaned', STAGE_CAT)]_vars

(* The block ran on a dataset with a stage column and left records out of  *)
(* the plot; the later views have run on the full dataset.                 *)
C10_Witness ==
  /\ pc = "done"
  /\ HasColumn(df_cleaned, STAGE)
  /\ box_input.rows # << >>
  /\ Len(df_plot_data.rows) < Len(df_cleaned.rows)
  /\ Len(stage_summary) > Cardinality({ box_input.rows[i].c[STAGE] : i \in 1..Len(box_input.rows) })
  /\ ~HasColumn(top_companies, STAGE_CAT)

RanRegionFilter == Past("region_filter") /\ HasColumn(df_cleaned, REGION)

(* C7: RegionFilter("All") returns at most 20 records (20 when there are   *)
(* that many), each a cleaned record, none older than a record left out,   *)
(* sorted descending by date; RegionFilter(X) returns exactly the records  *)
(* whose region is X, in their original order.                             *)
C7_RegionFilterResult ==
  RanRegionFilter =>
    IF selected_region = All
    THEN /\ Len(display_df.rows) = Min2(20, Len(df_cleaned.rows))
         /\ Cardinality(Indices(display_df)) = Len(display_df.rows)
         /\ \A i \in 1..Len(display_df.rows) :
              \E j \in 1..Len(df_cleaned.rows) : df_cleaned.rows[j] = display_df.rows[i]
         /\ \A i \in 1..Len(display_df.rows), j \in 1..Len(display_df.rows) :
              i < j => display_df.rows[i].c[FDATE].ym >= display_df.rows[j].c[FDATE].ym
         /\ \A j \in 1..Len(df_cleaned.rows) :
              df_cleaned.rows[j].idx \notin Indices(display_df) =>
                \A i \in 1..Len(display_df.rows) :
                  display_df.rows[i].c[FDATE].ym >= df_cleaned.rows[j].c[FDATE].ym
    ELSE display_df.rows =
           SelectSeq2(df_cleaned.rows,
                      { j \in 1..Len(df_cleaned.rows) :
                          /\ df_cleaned.rows[j].c[REGION].t = "str"
                          /\ df_cleaned.rows[j].c[REGION].s = selected_region })

(* More than 20 records with several dates, "All" selected.                *)
C7_Witness ==
  /\ RanRegionFilter
  /\ selected_region = All
  /\ Len(df_cleaned.rows) > 20
  /\ Len(display_df.rows) = 20
  /\ display_df.rows[1].c[FDATE] # display_df.rows[20].c[FDATE]
  /\ \E j \in 1..Len(df_cleaned.rows) :
       /\ df_cleaned.rows[j].idx \notin Indices(display_df)
       /\ \E i \in 1..20 : df_cleaned.rows[j].c[AMOUNT].n > display_df.rows[i].c[AMOUNT].n
====
